---------------------------- MODULE Spec2Model ----------------------------
(***************************************************************************)
(* Model of the line-of-credit amortization engine, calculateAmortization  *)
(* (services/calculatorService.ts), as a state machine: one invocation     *)
(* walks through the guard, the setup with the initial draw, the 24-month  *)
(* draw period, the repayment period and the summary.                      *)
(*                                                                         *)
(* Numbers.  The program computes in IEEE-754 doubles.  The model holds    *)
(* money in fixed point with MoneyScale units per dollar, rates and        *)
(* percentages with RateScale units per percentage point, and growth       *)
(* factors (1+r)^n with PowScale units per 1; every multiplication and     *)
(* division is computed exactly and rounded once to the nearest unit, as   *)
(* a double rounds to its nearest representable value.                     *)
(*                                                                         *)
(* Inputs.  Amounts, fees and percentages are drawn non-negative, as the   *)
(* form declares them (min = 0); annualRate also takes a negative value    *)
(* and termInYears the value 0, the two inputs the guard exists for.       *)
(* termInYears is a whole number of years (the form's step).               *)
(***************************************************************************)
EXTENDS Integers, Sequences, FiniteSets, TLC

(***************************************************************************)
(* Fixed-point representation                                              *)
(***************************************************************************)
MoneyScale == 10^2
RateScale  == 10^2
PowScale   == 10^7

Max(a, b) == IF a >= b THEN a ELSE b
Min(a, b) == IF a <= b THEN a ELSE b

\* <<q, r>> with a * b = q * c + r and 0 <= r < c, for 0 <= a < c and
\* b >= 0, computed by binary long multiplication so that no intermediate
\* product leaves the machine-integer range.
RECURSIVE MulDivQR(_, _, _)
MulDivQR(a, b, c) ==
  IF b = 0 THEN <<0, 0>>
  ELSE LET h == MulDivQR(a, b \div 2, c)
           r == 2 * h[2] + (IF b % 2 = 1 THEN a ELSE 0)
       IN  <<2 * h[1] + (r \div c), r % c>>

\* a * b / c rounded to the nearest integer (half away from zero); c > 0.
MulDiv(a, b, c) ==
  LET sgn   == IF (a < 0) # (b < 0) THEN -1 ELSE 1
      aa    == IF a < 0 THEN -a ELSE a
      bb    == IF b < 0 THEN -b ELSE b
      whole == (aa \div c) * bb
      qr    == MulDivQR(aa % c, bb, c)
  IN  sgn * (whole + qr[1] + (IF 2 * qr[2] >= c THEN 1 ELSE 0))

(***************************************************************************)
(* Program constants and derived period counts                             *)
(***************************************************************************)
DRAW_PERIOD_YEARS == 2

periodsPerYear(c) == IF c.repaymentCadence = "monthly" THEN 12 ELSE 52
drawPeriods(c) == DRAW_PERIOD_YEARS * periodsPerYear(c)
\* variant: the term is always counted in months
remainingTermInMonths(c) == c.termInYears * 12
remainingTermInPeriods(c) == c.termInYears * periodsPerYear(c)

\* x % periodsPerMonth, where periodsPerMonth = periodsPerYear / 12 is a
\* double.  Monthly: 12 / 12 = 1 and the remainder of an integer is 0.
\* Weekly: 52 / 12 is not representable; the double is 13/3 - e with
\* e = 2^-50 / 3 > 0 (the binary expansion 100.0101... is cut after 53 bits
\* and rounds down).  The remainder of x is x - q * (13/3 - e) with
\* q = floor(3x / 13); it is returned as <<n, k>>, standing for n/3 + k * e.
ModPeriodsPerMonth(c, x) ==
  IF c.repaymentCadence = "monthly" THEN <<0, 0>>
  ELSE LET q == (3 * x) \div 13 IN <<3 * x - 13 * q, q>>

\* (p - 1) % periodsPerMonth === 0
FirstPeriodOfMonth(c, p) == ModPeriodsPerMonth(c, p - 1) = <<0, 0>>

\* variant: only the first period of the schedule opens a year
FirstPeriodOfSchedule(c, p) == p = 1

\* (p - 1) % periodsPerYear === 0
FirstPeriodOfYear(c, p) == (p - 1) % periodsPerYear(c) = 0

\* Math.floor((p - 1) / periodsPerMonth)
currentMonthIndex(c, p) ==
  IF c.repaymentCadence = "monthly" THEN p - 1 ELSE (3 * (p - 1)) \div 13

(***************************************************************************)
(* Rate changes: [...rateChanges].sort((a, b) => a.period - b.period) and  *)
(* sortedRateChanges.find(rc => rc.period === p)                           *)
(***************************************************************************)
RECURSIVE InsertByPeriod(_, _)
InsertByPeriod(sorted, rc) ==
  IF sorted = <<>> THEN <<rc>>
  ELSE IF Head(sorted).period <= rc.period
       THEN <<Head(sorted)>> \o InsertByPeriod(Tail(sorted), rc)
       ELSE <<rc>> \o sorted

RECURSIVE SortByPeriod(_)
SortByPeriod(rcs) ==
  IF rcs = <<>> THEN <<>>
  ELSE InsertByPeriod(SortByPeriod(SubSeq(rcs, 1, Len(rcs) - 1)), rcs[Len(rcs)])

NoRateChange == [period |-> 0 - 1, newTotalAPR |-> 0]

\* variant: the last event that names the period wins
FindLastRateChange(rcs, p) ==
  LET at == {j \in 1..Len(rcs) : rcs[j].period = p}
  IN  IF at = {} THEN NoRateChange
      ELSE rcs[CHOOSE j \in at : \A h \in at : h <= j]

RECURSIVE FindRateChange(_, _)
FindRateChange(rcs, p) ==
  IF rcs = <<>> THEN NoRateChange
  ELSE IF Head(rcs).period = p THEN Head(rcs)
       ELSE FindRateChange(Tail(rcs), p)

(***************************************************************************)
(* Interest of one period on a balance, at an annual rate                  *)
(***************************************************************************)
\* endOfPeriod: balance * (rate / 100 / periodsPerYear)
\* adb:         balance * (rate / 100 / 365.25) * daysInPeriod, with
\*              daysInPeriod = 365.25 / 12 (monthly) or 7 (weekly);
\*              in 48ths of a day: 1461 or 336, and 365.25 days = 17532.
PeriodInterest(c, balance, rate) ==
  IF c.interestCalculationMethod = "adb"
  THEN LET days48 == IF c.repaymentCadence = "monthly" THEN 1461 ELSE 336
       IN  MulDiv(balance, rate * days48, 100 * RateScale * 17532)
  ELSE MulDiv(balance, rate, 100 * RateScale * periodsPerYear(c))

(***************************************************************************)
(* Level payment: P * r * (1+r)^n / ((1+r)^n - 1) for r > 0, P / n for     *)
(* r <= 0, 0 for n <= 0; r = rate / 100 / periodsPerYear                   *)
(***************************************************************************)
\* Math.pow(base, n) for an integer n >= 0, by repeated squaring
RECURSIVE PowFixed(_, _)
PowFixed(base, n) ==
  IF n <= 0 THEN PowScale
  ELSE LET h  == PowFixed(base, n \div 2)
           sq == MulDiv(h, h, PowScale)
       IN  IF n % 2 = 1 THEN MulDiv(sq, base, PowScale) ELSE sq

\* variant: the principal spread over the years of the term
straightLineByYears(c, P, n) == MulDiv(P, 1, c.termInYears)

\* P / n
straightLine(c, P, n) == MulDiv(P, 1, n)

\* variant: the principal spread evenly, whatever the rate
StraightLinePayment(c, P, rate, n) ==
  IF n > 0 THEN MulDiv(P, 1, n) ELSE 0

LevelPayment(c, P, rate, n) ==
  IF n > 0 /\ rate > 0
  THEN LET rden == 100 * RateScale * periodsPerYear(c)
           pow  == PowFixed(PowScale + MulDiv(PowScale, rate, rden), n)
       IN  MulDiv(P, MulDiv(pow, rate, rden), pow - PowScale)
  ELSE IF n > 0 THEN straightLine(c, P, n) ELSE 0

(***************************************************************************)
(* State of one invocation                                                 *)
(***************************************************************************)
VARIABLES
  cfg,                          \* the sixteen arguments of the call
  pc,                           \* "idle", "call", "draw", "repay", "summary",
                                \* "done"
  i,                            \* loop counter of the current phase
  sortedRateChanges,
  schedule,
  remainingBalance,
  totalInterest,
  totalDraws,
  totalFees,
  peakBalance,
  currentAnnualRate,
  principalAndInterestPayment,
  result,                       \* the CalculationResult returned
  trace,                        \* history: what each period decided
  calls,                        \* number of the current invocation
  previous,                     \* the result of the previous invocation
  previousCfg,                  \* the arguments of the previous invocation
  isComparing,                  \* App state: useState at part_001:896-902
  activeScenario,
  scenarioA,
  scenarioB,
  resultA,
  resultB,
  pending                       \* scenarios whose effect has yet to run

locals == <<sortedRateChanges, schedule, remainingBalance, totalInterest,
            totalDraws, totalFees, peakBalance, currentAnnualRate,
            principalAndInterestPayment, trace>>

vars == <<cfg, pc, i, sortedRateChanges, schedule, remainingBalance,
          totalInterest, totalDraws, totalFees, peakBalance,
          currentAnnualRate, principalAndInterestPayment, result, trace,
          calls, previous, previousCfg, isComparing, activeScenario,
          scenarioA, scenarioB, resultA, resultB, pending>>

caller == <<calls, previous, previousCfg>>

app == <<isComparing, activeScenario, scenarioA, scenarioB, resultA, resultB,
         pending>>

ZeroResult ==
  [principalAndInterestPayment |-> 0, peakBalance |-> 0, totalInterest |-> 0,
   totalPayment |-> 0, totalFees |-> 0, effectiveAPR |-> 0, schedule |-> <<>>]

(***************************************************************************)
(* if (annualRate < 0 || termInYears <= 0) return { 0, ..., schedule: [] } *)
(***************************************************************************)
\* variant: a term of 0 years passes the guard
GuardRejectsNegativeOnly(c) == c.annualRate < 0 \/ c.termInYears < 0

GuardRejects(c) == c.annualRate < 0 \/ c.termInYears <= 0

GuardReturn ==
  /\ pc = "call"
  /\ GuardRejects(cfg)
  /\ result' = ZeroResult
  /\ pc' = "done"
  /\ UNCHANGED <<cfg, i, locals, caller, app>>

(***************************************************************************)
(* Setup: sorted rate changes, fresh working state, the initial draw       *)
(***************************************************************************)
\* variant: the initial draw is not capped at the borrow limit
actualInitialDrawUncapped(c) ==
  IF c.initialDrawAmount > 0 THEN Max(0, c.initialDrawAmount) ELSE 0

actualInitialDraw(c) ==
  IF c.initialDrawAmount > 0
  THEN Max(0, Min(c.initialDrawAmount, c.borrowLimit))
  ELSE 0

\* variant: the initial draw is free of fees
initialDrawFeesWaived(c) == 0

\* actualInitialDraw * (originationFeePercent / 100) + drawFee
initialDrawFees(c) ==
  IF c.initialDrawAmount > 0
  THEN MulDiv(actualInitialDraw(c), c.originationFeePercent, 100 * RateScale)
       + c.drawFee
  ELSE 0

\* variant: the fee total of an earlier invocation is carried over
SetupKeepingFees ==
  /\ pc = "call"
  /\ ~GuardRejects(cfg)
  /\ sortedRateChanges' = SortByPeriod(cfg.rateChanges)
  /\ schedule' = <<>>
  /\ trace' = <<>>
  /\ remainingBalance' = actualInitialDraw(cfg)
  /\ totalInterest' = 0
  /\ totalDraws' = actualInitialDraw(cfg)
  /\ totalFees' = totalFees + initialDrawFees(cfg)
  /\ peakBalance' = actualInitialDraw(cfg)
  /\ currentAnnualRate' = cfg.annualRate
  /\ principalAndInterestPayment' = 0
  /\ i' = 1
  /\ pc' = "draw"
  /\ UNCHANGED <<cfg, result, caller, app>>

Setup ==
  /\ pc = "call"
  /\ ~GuardRejects(cfg)
  /\ sortedRateChanges' = SortByPeriod(cfg.rateChanges)
  /\ schedule' = <<>>
  /\ trace' = <<>>
  /\ remainingBalance' = actualInitialDraw(cfg)
  /\ totalInterest' = 0
  /\ totalDraws' = actualInitialDraw(cfg)
  /\ totalFees' = initialDrawFees(cfg)
  /\ peakBalance' = actualInitialDraw(cfg)
  /\ currentAnnualRate' = cfg.annualRate
  /\ principalAndInterestPayment' = 0
  /\ i' = 1
  /\ pc' = "draw"
  /\ UNCHANGED <<cfg, result, caller, app>>

(***************************************************************************)
(* One iteration of the draw-period loop, i = 1 .. drawPeriods             *)
(***************************************************************************)
\* The draw of period p on a balance: only the first period of a month
\* whose month index lies inside drawSchedule consults it.
ConsultsSchedule(c, p) ==
  FirstPeriodOfMonth(c, p) /\ currentMonthIndex(c, p) < Len(c.drawSchedule)

requestedDraw(c, p) == c.drawSchedule[currentMonthIndex(c, p) + 1]

\* variant: the request is not capped at the headroom
actualDrawUncapped(c, p, balance) ==
  IF ConsultsSchedule(c, p) THEN Max(0, requestedDraw(c, p)) ELSE 0

actualDrawOf(c, p, balance) ==
  IF ConsultsSchedule(c, p)
  THEN Max(0, Min(requestedDraw(c, p), c.borrowLimit - balance))
  ELSE 0

\* Fees charged to period p on account of its draw, or of its absence.
\* variant: period 1 is charged even after an initial draw
InactivityAlways(c, p) == TRUE

InactivityApplies(c, p) == p > 1 \/ c.initialDrawAmount = 0

drawRelatedFees(c, p, actualDraw) ==
  IF actualDraw > 0
  THEN MulDiv(actualDraw, c.originationFeePercent, 100 * RateScale) + c.drawFee
  ELSE IF InactivityApplies(c, p) THEN c.inactivityFee ELSE 0

\* Flat fees keyed to the global period number, in both phases.
periodicFees(c, p) ==
  (IF FirstPeriodOfMonth(c, p) THEN c.monthlyMaintenanceFee ELSE 0)
  + (IF FirstPeriodOfYear(c, p) THEN c.annualFee ELSE 0)

\* variant: the percentage of the balance, whatever the interest
percentOfBalancePaymentUnfloored(c, balance, interest) ==
  MulDiv(balance, c.balancePaymentPercent, 100 * RateScale)

\* Math.max(interest, remainingBalance * (balancePaymentPercent / 100))
percentOfBalancePayment(c, balance, interest) ==
  Max(interest, MulDiv(balance, c.balancePaymentPercent, 100 * RateScale))

\* variant: every policy but percentOfBalance pays the principal floor
policyPaymentFloorByDefault(c, balance, interest) ==
  IF c.paymentPolicy = "percentOfBalance"
  THEN LET payment == percentOfBalancePayment(c, balance, interest)
       IN  <<payment, payment - interest>>
  ELSE <<interest + c.principalFloorAmount, c.principalFloorAmount>>

\* <<payment, principalPaid>> of a draw-phase period, before the clamp.
policyPayment(c, balance, interest) ==
  IF c.paymentPolicy = "percentOfBalance"
  THEN LET payment == percentOfBalancePayment(c, balance, interest)
       IN  <<payment, payment - interest>>
  ELSE IF c.paymentPolicy = "interestPlusPrincipalFloor"
       THEN <<interest + c.principalFloorAmount, c.principalFloorAmount>>
       ELSE <<interest, 0>>

\* variant: the principal is capped and the payment left as it was
clampPrincipalOnly(pp, balance, interest) ==
  IF pp[2] > balance THEN <<pp[1], balance>> ELSE pp

\* variant: the principal is never capped at the balance
clampNothing(pp, balance, interest) == pp

\* if (principalPaid > remainingBalance) { principalPaid = remainingBalance;
\*                                         payment = principalPaid + interest }
clampToBalance(pp, balance, interest) ==
  IF pp[2] > balance THEN <<balance + interest, balance>> ELSE pp

\* variant: the peak is never raised after the initial draw
peakNeverRaised(peak, balance) == peak

\* if (remainingBalance > peakBalance) peakBalance = remainingBalance
peakAfter(peak, balance) == IF balance > peak THEN balance ELSE peak

\* variant: the interest is computed on the balance before the draw
interestBaseBeforeDraw(beginningBalance, actualDraw) == beginningBalance

\* remainingBalance += actualDraw comes before the interest is computed
interestBase(beginningBalance, actualDraw) == beginningBalance + actualDraw

\* variant: a change lasts for its own period only
rateForThePeriodOnly(p, rate) ==
  LET rc == FindRateChange(sortedRateChanges, p)
  IN  IF rc # NoRateChange THEN rc.newTotalAPR ELSE cfg.annualRate

rateInForce(p, rate) ==
  LET rc == FindRateChange(sortedRateChanges, p)
  IN  IF rc # NoRateChange THEN rc.newTotalAPR ELSE rate

DrawPeriod ==
  /\ pc = "draw"
  /\ i <= drawPeriods(cfg)
  /\ LET beginningBalance == remainingBalance
         rate         == rateInForce(i, currentAnnualRate)
         actualDraw   == actualDrawOf(cfg, i, remainingBalance)
         feesThisPeriod ==
           periodicFees(cfg, i) + drawRelatedFees(cfg, i, actualDraw)
         balance      == remainingBalance + actualDraw
         interest     ==
           PeriodInterest(cfg, interestBase(remainingBalance, actualDraw), rate)
         pp           == clampToBalance(policyPayment(cfg, balance, interest),
                                        balance, interest)
         payment      == pp[1]
         principalPaid == pp[2]
     IN  /\ currentAnnualRate' = rate
         /\ totalFees' = totalFees + feesThisPeriod
         /\ totalDraws' = totalDraws + actualDraw
         /\ peakBalance' = peakAfter(peakBalance, balance)
         /\ totalInterest' = totalInterest + interest
         /\ remainingBalance' = balance - principalPaid
         /\ schedule' = Append(schedule,
              [period |-> i,
               beginningBalance |-> beginningBalance,
               drawAmount |-> actualDraw,
               payment |-> payment,
               interest |-> interest,
               principal |-> principalPaid,
               feesThisPeriod |-> feesThisPeriod,
               totalPaymentThisPeriod |-> payment + feesThisPeriod,
               remainingBalance |-> balance - principalPaid,
               availableCredit |-> cfg.borrowLimit - (balance - principalPaid)])
         /\ trace' = Append(trace,
              [phase |-> "draw",
               rate |-> rate,
               consulted |-> ConsultsSchedule(cfg, i),
               requested |-> IF ConsultsSchedule(cfg, i)
                             THEN requestedDraw(cfg, i) ELSE 0,
               inactivity |-> actualDraw = 0 /\ InactivityApplies(cfg, i),
               reamortized |-> FALSE])
  /\ i' = i + 1
  /\ UNCHANGED <<cfg, pc, sortedRateChanges, principalAndInterestPayment,
                 result, caller, app>>

(***************************************************************************)
(* End of the draw loop: repaymentPrincipal and the first level payment    *)
(***************************************************************************)
BeginRepayment ==
  /\ pc = "draw"
  /\ i > drawPeriods(cfg)
  /\ IF remainingBalance > 0
     THEN /\ principalAndInterestPayment' =
               LevelPayment(cfg, remainingBalance, currentAnnualRate,
                            remainingTermInPeriods(cfg))
          /\ i' = 1
          /\ pc' = "repay"
     ELSE /\ principalAndInterestPayment' = 0
          /\ i' = i
          /\ pc' = "summary"
  /\ UNCHANGED <<cfg, sortedRateChanges, schedule, remainingBalance,
                 totalInterest, totalDraws, totalFees, peakBalance,
                 currentAnnualRate, result, trace, caller, app>>

(***************************************************************************)
(* One iteration of the repayment loop, i = 1 .. remainingTermInPeriods    *)
(***************************************************************************)
\* The level payment in force in local period k on a balance: re-amortized
\* when a rate change lands on the period and something is left to repay.
\* variant: the first level payment is kept to the end
ReamortizesNever(c, p, balance) == FALSE

Reamortizes(c, p, balance) ==
  /\ FindRateChange(sortedRateChanges, p) # NoRateChange
  /\ balance > 0
  /\ remainingTermInPeriods(c) - (p - drawPeriods(c) - 1) > 0

\* variant: re-amortized over the whole term, not over the periods left
paymentInForceFullTerm(c, p, balance, rate, payment) ==
  IF Reamortizes(c, p, balance)
  THEN LevelPayment(c, balance, rate, remainingTermInPeriods(c))
  ELSE payment

paymentInForce(c, p, balance, rate, payment) ==
  IF Reamortizes(c, p, balance)
  THEN LevelPayment(c, balance, rate,
                    remainingTermInPeriods(c) - (p - drawPeriods(c) - 1))
  ELSE payment

\* variant: the principal is what the payment leaves, whatever the balance
repaymentPrincipalUnclamped(balance, payment, interest) == payment - interest

\* principalPaid = payment - interest, clamped to the balance
repaymentPrincipalPaid(balance, payment, interest) ==
  IF balance - (payment - interest) < 0 THEN balance ELSE payment - interest

\* variant: the payment of a clamped period is recomputed, as in the draw phase
recordedPaymentRecomputed(payment, principalPaid, interest) ==
  principalPaid + interest

\* payment: principalAndInterestPayment, whatever principal was paid
recordedPayment(payment, principalPaid, interest) == payment

RepaymentPeriod ==
  /\ pc = "repay"
  /\ i <= remainingTermInPeriods(cfg)
  /\ LET currentOverallPeriod == drawPeriods(cfg) + i
         beginningBalance == remainingBalance
         rate      == rateInForce(currentOverallPeriod, currentAnnualRate)
         payment   == paymentInForce(cfg, currentOverallPeriod,
                                     remainingBalance, rate,
                                     principalAndInterestPayment)
         feesThisPeriod == periodicFees(cfg, currentOverallPeriod)
         interest  == PeriodInterest(cfg, remainingBalance, rate)
         principalPaid ==
           repaymentPrincipalPaid(remainingBalance, payment, interest)
         balance   == remainingBalance - principalPaid
     IN  /\ currentAnnualRate' = rate
         /\ principalAndInterestPayment' = payment
         /\ totalFees' = totalFees + feesThisPeriod
         /\ totalInterest' = totalInterest + interest
         /\ remainingBalance' = balance
         /\ schedule' = Append(schedule,
              [period |-> currentOverallPeriod,
               beginningBalance |-> beginningBalance,
               drawAmount |-> 0,
               payment |-> recordedPayment(payment, principalPaid, interest),
               interest |-> interest,
               principal |-> principalPaid,
               feesThisPeriod |-> feesThisPeriod,
               totalPaymentThisPeriod |-> payment + feesThisPeriod,
               remainingBalance |-> IF balance < 0 THEN 0 ELSE balance,
               availableCredit |-> cfg.borrowLimit - balance])
         /\ trace' = Append(trace,
              [phase |-> "repay",
               rate |-> rate,
               consulted |-> FALSE,
               requested |-> 0,
               inactivity |-> FALSE,
               reamortized |->
                 Reamortizes(cfg, currentOverallPeriod, remainingBalance)])
  /\ i' = i + 1
  /\ UNCHANGED <<cfg, pc, sortedRateChanges, totalDraws, peakBalance,
                 result, caller, app>>

(***************************************************************************)
(* Summary and return                                                      *)
(***************************************************************************)
\* variant: the division is guarded by raising a zero totalDraws to one unit
effectiveAPROverAtLeastOne(c, interest, fees, draws, length) ==
  IF length > 0
  THEN MulDiv(interest + fees, 100 * RateScale * periodsPerYear(c),
              Max(draws, 1) * length)
  ELSE 0

\* ((totalInterest + totalFees) / totalDraws / (length / periodsPerYear)) * 100
effectiveAPROf(c, interest, fees, draws, length) ==
  IF draws > 0 /\ length > 0
  THEN MulDiv(interest + fees, 100 * RateScale * periodsPerYear(c),
              draws * length)
  ELSE 0

\* variant: the fees are left out of the total
totalPaymentWithoutFees(draws, interest, fees) == draws + interest

totalPaymentOf(draws, interest, fees) == draws + interest + fees

Return ==
  /\ \/ pc = "summary"
     \/ pc = "repay" /\ i > remainingTermInPeriods(cfg)
  /\ result' =
       [principalAndInterestPayment |-> principalAndInterestPayment,
        peakBalance |-> peakBalance,
        totalInterest |-> totalInterest,
        totalPayment |-> totalPaymentOf(totalDraws, totalInterest, totalFees),
        totalFees |-> totalFees,
        effectiveAPR |-> effectiveAPROf(cfg, totalInterest, totalFees,
                                        totalDraws, Len(schedule)),
        schedule |-> schedule]
  /\ pc' = "done"
  /\ UNCHANGED <<cfg, i, locals, caller, app>>

(***************************************************************************)
(* Configurations explored                                                 *)
(***************************************************************************)
MaxTermYears == 1

Dollars(x) == x * MoneyScale
Percent(x) == x * RateScale
RC(p, apr) == [period |-> p, newTotalAPR |-> Percent(apr)]

NoFees ==
  [originationFeePercent |-> 0, annualFee |-> 0, drawFee |-> 0,
   inactivityFee |-> 0, monthlyMaintenanceFee |-> 0]
AllFees ==
  [originationFeePercent |-> Percent(1), annualFee |-> Dollars(50),
   drawFee |-> Dollars(10), inactivityFee |-> Dollars(5),
   monthlyMaintenanceFee |-> Dollars(2)]

Config(ds, init, rate, term, fees, limit, cadence, policy, params, rcs, method) ==
  [drawSchedule |-> ds,
   initialDrawAmount |-> init,
   annualRate |-> rate,
   termInYears |-> term,
   originationFeePercent |-> fees.originationFeePercent,
   annualFee |-> fees.annualFee,
   drawFee |-> fees.drawFee,
   inactivityFee |-> fees.inactivityFee,
   monthlyMaintenanceFee |-> fees.monthlyMaintenanceFee,
   borrowLimit |-> limit,
   repaymentCadence |-> cadence,
   paymentPolicy |-> policy,
   balancePaymentPercent |-> params[1],
   principalFloorAmount |-> params[2],
   rateChanges |-> rcs,
   interestCalculationMethod |-> method]

Policies == {"interestOnly", "percentOfBalance", "interestPlusPrincipalFloor"}
Methods == {"endOfPeriod", "adb"}
ModestParams == <<Percent(2), Dollars(70)>>
PolicyParams == {ModestParams, <<Percent(150), Dollars(2000)>>}

LateDraws == [m \in 1..24 |-> IF m \in {3, 24} THEN Dollars(300) ELSE 0]

MonthlySchedules ==
  {<<>>, <<Dollars(600)>>, <<0, Dollars(700), 0, Dollars(700)>>, LateDraws}

MonthlyRateChanges ==
  {<<>>,
   <<RC(30, 24)>>,
   <<RC(30, 6), RC(5, 24)>>,
   <<RC(30, 24), RC(30, 6)>>,
   <<RC(0, 24), RC(999, 24)>>,
   <<RC(30, 0)>>,
   <<RC(25, 24), RC(36, 12)>>}

\* monthly cadence, interest on the end-of-period balance
MonthlyConfigs ==
  {Config(ds, init, rate, term, fees, Dollars(1000), "monthly", policy,
          params, rcs, "endOfPeriod") :
     ds \in MonthlySchedules,
     init \in {0, Dollars(400), Dollars(1500)},
     rate \in {0, Percent(12)},
     term \in 1..MaxTermYears,
     fees \in {NoFees, AllFees},
     policy \in Policies,
     params \in PolicyParams,
     rcs \in MonthlyRateChanges}

\* monthly cadence, interest on the average daily balance
MonthlyAdbConfigs ==
  {Config(ds, Dollars(400), Percent(12), term, AllFees, Dollars(1000),
          "monthly", policy, params, rcs, "adb") :
     ds \in {<<Dollars(600)>>, LateDraws},
     term \in 1..MaxTermYears,
     policy \in Policies,
     params \in PolicyParams,
     rcs \in {<<>>, <<RC(30, 6), RC(5, 24)>>}}

\* a line with no credit at all
ZeroLimitConfigs ==
  {Config(<<Dollars(600)>>, init, Percent(12), 1, AllFees, 0, cadence,
          policy, ModestParams, <<>>, "endOfPeriod") :
     init \in {0, Dollars(400)},
     cadence \in {"monthly", "weekly"},
     policy \in Policies}

\* weekly cadence
WeeklyConfigs ==
  {Config(ds, init, Percent(12), term, fees, Dollars(1000), "weekly", policy,
          ModestParams, rcs, method) :
     ds \in {<<Dollars(600)>>, LateDraws},
     init \in {0, Dollars(400)},
     term \in 1..MaxTermYears,
     fees \in {NoFees, AllFees},
     policy \in Policies,
     rcs \in {<<>>, <<RC(130, 24)>>, <<RC(50, 24), RC(156, 6)>>},
     method \in Methods}

\* weekly cadence at a rate high enough for the daily accrual of the adb
\* method (7 / 365.25 of a year per week, less than 1 / 52) to retire the
\* balance before the last scheduled week of a one-year term
HighRateConfigs ==
  {Config(<<Dollars(600)>>, 0, Percent(400), 1, NoFees, Dollars(1000),
          "weekly", policy, ModestParams, rcs, method) :
     policy \in {"interestOnly", "percentOfBalance"},
     rcs \in {<<>>, <<RC(156, 12)>>, <<RC(130, 200)>>, <<RC(50, 12)>>,
             <<RC(50, 12), RC(110, 400)>>},
     method \in Methods}

\* configurations on both sides of the guard
GuardConfigs ==
  {Config(<<Dollars(600)>>, init, rate, term, AllFees, Dollars(1000), cadence,
          "interestOnly", ModestParams, <<RC(5, 24)>>,
          "endOfPeriod") :
     init \in {0, Dollars(400)},
     rate \in {0 - Percent(1), 0, Percent(12)},
     term \in {0 - 1, 0, 1},
     cadence \in {"monthly", "weekly"}}

Configs ==
  MonthlyConfigs \cup MonthlyAdbConfigs \cup ZeroLimitConfigs
  \cup WeeklyConfigs \cup HighRateConfigs \cup GuardConfigs

(***************************************************************************)
(* Specification of one invocation                                         *)
(***************************************************************************)
\* null: the result of a scenario whose effect has not run yet
Null == [null |-> TRUE]

EmptyDrawSchedule == [m \in 1..36 |-> 0]

defaultScenarioInputs ==
  [borrowLimit |-> Dollars(100000),
   initialDrawAmount |-> 0,
   drawSchedule |-> EmptyDrawSchedule,
   primeRate |-> 725,                  \* 7.25 %
   margin |-> 250,                     \* 2.5 %
   rateChanges |-> <<>>,
   repaymentTerm |-> 5,
   originationFee |-> Percent(1),
   annualFee |-> 0,
   drawFee |-> 0,
   inactivityFee |-> 0,
   monthlyMaintenanceFee |-> 0,
   repaymentCadence |-> "monthly",
   interestCalculationMethod |-> "endOfPeriod",
   paymentPolicy |-> "interestOnly",
   balancePaymentPercent |-> Percent(1),
   principalFloorAmount |-> Dollars(500)]

\* The locals of a call that has not started, for arguments out of configs.
InitLocals(configs) ==
  /\ cfg \in configs
  /\ i = 0
  /\ sortedRateChanges = <<>>
  /\ schedule = <<>>
  /\ remainingBalance = 0
  /\ totalInterest = 0
  /\ totalDraws = 0
  /\ totalFees = 0
  /\ peakBalance = 0
  /\ currentAnnualRate = 0
  /\ principalAndInterestPayment = 0
  /\ result = ZeroResult
  /\ trace = <<>>
  /\ calls = 1
  /\ previous = ZeroResult
  /\ previousCfg = cfg

\* The state of App as useState builds it.
InitAppState ==
  /\ isComparing = FALSE
  /\ activeScenario = "A"
  /\ scenarioA = defaultScenarioInputs
  /\ scenarioB = defaultScenarioInputs
  /\ resultA = Null
  /\ resultB = Null

InitWith(configs) ==
  /\ InitLocals(configs)
  /\ pc = "call"
  /\ InitAppState
  /\ pending = <<>>

Init == InitWith(Configs)

Next ==
  \/ GuardReturn
  \/ Setup
  \/ DrawPeriod
  \/ BeginRepayment
  \/ RepaymentPeriod
  \/ Return

Spec == Init /\ [][Next]_vars

(***************************************************************************)
(* Specification of repeated invocations with the same arguments: the      *)
(* caller keeps the result and calls again; whatever the previous          *)
(* invocation left in its working variables is still there.                *)
(***************************************************************************)
MaxCalls == 2

RerunConfigs ==
  {c \in Configs : /\ c.drawSchedule = <<Dollars(600)>>
                   /\ c.monthlyMaintenanceFee > 0
                   /\ c.balancePaymentPercent = Percent(2)
                   /\ c.termInYears <= 1}

Reinvoke ==
  /\ pc = "done"
  /\ calls < MaxCalls
  /\ previous' = result
  /\ previousCfg' = cfg
  /\ calls' = calls + 1
  /\ pc' = "call"
  /\ UNCHANGED <<cfg, i, locals, result, app>>

InitRerun == InitWith(RerunConfigs)

NextRerun == Next \/ Reinvoke

SpecRerun == InitRerun /\ [][NextRerun]_vars

(***************************************************************************)
(* Specification of invocations that differ in one payment-policy          *)
(* parameter: the caller keeps the result, changes balancePaymentPercent   *)
(* or principalFloorAmount, and calls again.                               *)
(***************************************************************************)
EditConfigs ==
  {c \in Configs : /\ c.drawSchedule = <<Dollars(600)>>
                   /\ c.repaymentCadence = "monthly"
                   /\ c.annualFee > 0
                   /\ c.termInYears <= 1
                   /\ Len(c.rateChanges) <= 1}

PolicyParameters == {"balancePaymentPercent", "principalFloorAmount"}

ParameterValues(field) ==
  IF field = "balancePaymentPercent"
  THEN {pp[1] : pp \in PolicyParams}
  ELSE {pp[2] : pp \in PolicyParams}

EditPolicyParameter ==
  /\ pc = "done"
  /\ calls < MaxCalls
  /\ \E field \in PolicyParameters :
       \E v \in ParameterValues(field) \ {cfg[field]} :
         cfg' = [cfg EXCEPT ![field] = v]
  /\ previous' = result
  /\ previousCfg' = cfg
  /\ calls' = calls + 1
  /\ pc' = "call"
  /\ UNCHANGED <<i, locals, result, app>>

InitEdit == InitWith(EditConfigs)

NextEdit == Next \/ EditPolicyParameter

SpecEdit == InitEdit /\ [][NextEdit]_vars

(***************************************************************************)
(* The page: two scenarios, each recomputed by its effect, and the         *)
(* comparison of their results                                             *)
(***************************************************************************)
Scenarios == {"A", "B"}

scenarioOf(name) == IF name = "A" THEN scenarioA ELSE scenarioB

\* The arguments an effect passes: annualRate is primeRate + margin.
ArgumentsOf(s) ==
  [drawSchedule |-> s.drawSchedule,
   initialDrawAmount |-> s.initialDrawAmount,
   annualRate |-> s.primeRate + s.margin,
   termInYears |-> s.repaymentTerm,
   originationFeePercent |-> s.originationFee,
   annualFee |-> s.annualFee,
   drawFee |-> s.drawFee,
   inactivityFee |-> s.inactivityFee,
   monthlyMaintenanceFee |-> s.monthlyMaintenanceFee,
   borrowLimit |-> s.borrowLimit,
   repaymentCadence |-> s.repaymentCadence,
   paymentPolicy |-> s.paymentPolicy,
   balancePaymentPercent |-> s.balancePaymentPercent,
   principalFloorAmount |-> s.principalFloorAmount,
   rateChanges |-> s.rateChanges,
   interestCalculationMethod |-> s.interestCalculationMethod]

\* The page is at rest: every effect has run and stored its result.
Rendered == pc = "idle" /\ pending = <<>>

\* An effect whose scenario changed calls calculateAmortization.
RunEffect ==
  /\ pc = "idle"
  /\ pending # <<>>
  /\ cfg' = ArgumentsOf(scenarioOf(Head(pending)))
  /\ pc' = "call"
  /\ UNCHANGED <<i, locals, result, caller, app>>

\* setResultA / setResultB with what the call returned.
SetResult ==
  /\ pc = "done"
  /\ pending # <<>>
  /\ IF Head(pending) = "A"
     THEN resultA' = result /\ UNCHANGED resultB
     ELSE resultB' = result /\ UNCHANGED resultA
  /\ pending' = Tail(pending)
  /\ pc' = "idle"
  /\ UNCHANGED <<cfg, i, locals, result, caller, isComparing, activeScenario,
                 scenarioA, scenarioB>>

\* The values typed into the form of the active scenario.
InitialDrawAmounts == {0, Dollars(400)}
DrawSchedules ==
  {EmptyDrawSchedule, [m \in 1..36 |-> IF m = 2 THEN Dollars(600) ELSE 0]}
RepaymentTerms == {5, 0}

\* setScenarioA / setScenarioB: the scenario is replaced and its effect runs.
ReplaceScenario(name, s) ==
  /\ IF name = "A"
     THEN scenarioA' = s /\ UNCHANGED scenarioB
     ELSE scenarioB' = s /\ UNCHANGED scenarioA
  /\ pending' = <<name>>

\* handleSetScenarioA / handleSetScenarioB: one field of the active scenario
SetScenario ==
  /\ Rendered
  /\ LET s == scenarioOf(activeScenario)
     IN  \/ \E v \in InitialDrawAmounts \ {s.initialDrawAmount} :
              ReplaceScenario(activeScenario,
                              [s EXCEPT !.initialDrawAmount = v])
         \/ \E v \in DrawSchedules \ {s.drawSchedule} :
              ReplaceScenario(activeScenario, [s EXCEPT !.drawSchedule = v])
         \/ \E v \in RepaymentTerms \ {s.repaymentTerm} :
              ReplaceScenario(activeScenario, [s EXCEPT !.repaymentTerm = v])
  /\ UNCHANGED <<cfg, pc, i, locals, result, caller, isComparing,
                 activeScenario, resultA, resultB>>

\* The two scenario buttons, shown while comparing.
SetActiveScenario ==
  /\ Rendered
  /\ isComparing
  /\ \E name \in Scenarios \ {activeScenario} : activeScenario' = name
  /\ UNCHANGED <<cfg, pc, i, locals, result, caller, isComparing, scenarioA,
                 scenarioB, resultA, resultB, pending>>

\* The active scenario goes back to the defaults.  A scenario that already
\* is the default object is recomputed here, to the same result.
handleReset ==
  /\ Rendered
  /\ ReplaceScenario(activeScenario, defaultScenarioInputs)
  /\ UNCHANGED <<cfg, pc, i, locals, result, caller, isComparing,
                 activeScenario, resultA, resultB>>

\* Shown while comparing with scenario B active.
handleCopyToB ==
  /\ Rendered
  /\ isComparing
  /\ activeScenario = "B"
  /\ ReplaceScenario("B", scenarioA)
  /\ UNCHANGED <<cfg, pc, i, locals, result, caller, isComparing,
                 activeScenario, resultA, resultB>>

\* Scenario B starts as a copy of A and becomes the active one.
handleEnableComparison ==
  /\ Rendered
  /\ ~isComparing
  /\ ReplaceScenario("B", scenarioA)
  /\ isComparing' = TRUE
  /\ activeScenario' = "B"
  /\ UNCHANGED <<cfg, pc, i, locals, result, caller, resultA, resultB>>

handleRemoveComparison ==
  /\ Rendered
  /\ isComparing
  /\ isComparing' = FALSE
  /\ activeScenario' = "A"
  /\ ReplaceScenario("B", defaultScenarioInputs)
  /\ UNCHANGED <<cfg, pc, i, locals, result, caller, resultA, resultB>>

\* The draws of a schedule: its entries with drawAmount > 0.
PositiveDraws(entries) == SelectSeq(entries, LAMBDA d : d.drawAmount > 0)

RECURSIVE SumDrawAmount(_)
SumDrawAmount(draws) ==
  IF draws = <<>> THEN 0
  ELSE Head(draws).drawAmount + SumDrawAmount(Tail(draws))

RECURSIVE MaxDrawAmount(_)
MaxDrawAmount(draws) ==
  IF draws = <<>> THEN 0
  ELSE Max(Head(draws).drawAmount, MaxDrawAmount(Tail(draws)))

\* totalDraws: the draws of the schedule plus the initial draw of the
\* scenario that is active in the form
calculateExtendedMetrics(res) ==
  IF res = Null THEN [totalDraws |-> 0, maxDraw |-> 0, avgDraw |-> 0]
  ELSE LET draws == PositiveDraws(res.schedule)
           total == SumDrawAmount(draws)
                    + (IF activeScenario = "A"
                       THEN scenarioA.initialDrawAmount
                       ELSE scenarioB.initialDrawAmount)
       IN  [totalDraws |-> total,
            maxDraw |-> MaxDrawAmount(draws),
            avgDraw |-> IF Len(draws) > 0
                        THEN MulDiv(total, 1, Len(draws)) ELSE 0]

extendedMetricsA == calculateExtendedMetrics(resultA)
extendedMetricsB == calculateExtendedMetrics(resultB)

activeResult == IF activeScenario = "A" THEN resultA ELSE resultB

\* ComparisonDisplay is on the page.
ComparisonDisplayed ==
  /\ activeResult # Null
  /\ Len(activeResult.schedule) > 0
  /\ isComparing
  /\ resultA # Null
  /\ resultB # Null

InitApp ==
  /\ InitLocals({ArgumentsOf(defaultScenarioInputs)})
  /\ pc = "idle"
  /\ InitAppState
  /\ pending = <<"A", "B">>

NextApp ==
  \/ Next
  \/ RunEffect
  \/ SetResult
  \/ SetScenario
  \/ SetActiveScenario
  \/ handleReset
  \/ handleCopyToB
  \/ handleEnableComparison
  \/ handleRemoveComparison

SpecApp == InitApp /\ [][NextApp]_vars

(***************************************************************************)
(* Properties                                                              *)
(***************************************************************************)
Returned == pc = "done"
PassesGuard == cfg.annualRate >= 0 /\ cfg.termInYears > 0
DrawLength == IF cfg.repaymentCadence = "monthly" THEN 24 ELSE 104
TermLength ==
  cfg.termInYears * (IF cfg.repaymentCadence = "monthly" THEN 12 ELSE 52)
Entries == 1..Len(result.schedule)
DrawEntries == {k \in Entries : k <= DrawLength}
RepaymentEntries == {k \in Entries : k > DrawLength}

\* C1: a call with annualRate < 0 or termInYears <= 0 returns, and returns
\* the six summary fields equal to 0 and an empty schedule, whatever the
\* other arguments are.
C1_GuardReturnsZero ==
  (Returned /\ (cfg.annualRate < 0 \/ cfg.termInYears <= 0)) =>
    /\ result.principalAndInterestPayment = 0
    /\ result.peakBalance = 0
    /\ result.totalInterest = 0
    /\ result.totalPayment = 0
    /\ result.totalFees = 0
    /\ result.effectiveAPR = 0
    /\ result.schedule = <<>>

C1_Witness ==
  /\ Returned
  /\ cfg.termInYears = 0
  /\ cfg.annualRate > 0
  /\ cfg.initialDrawAmount > 0
  /\ cfg.drawFee > 0
  /\ result.schedule = <<>>

C3_BalanceNonNegative ==
  /\ \A k \in 1..Len(schedule) : schedule[k].remainingBalance >= 0
  /\ Returned => \A k \in Entries : result.schedule[k].remainingBalance >= 0

\* a draw-phase principal capped at the balance, and a repayment phase
C3_Witness ==
  /\ Returned
  /\ cfg.paymentPolicy = "interestPlusPrincipalFloor"
  /\ \E k \in DrawEntries :
       /\ result.schedule[k].principal > 0
       /\ result.schedule[k].principal < cfg.principalFloorAmount
       /\ result.schedule[k].remainingBalance = 0
  /\ \E k \in RepaymentEntries :
       /\ result.schedule[k].principal > 0
       /\ result.schedule[k].remainingBalance = 0

\* the initial draw actually taken: initialDrawAmount capped at borrowLimit
InitialDrawTaken ==
  IF cfg.initialDrawAmount > 0 /\ cfg.borrowLimit > 0
  THEN (IF cfg.initialDrawAmount <= cfg.borrowLimit
        THEN cfg.initialDrawAmount ELSE cfg.borrowLimit)
  ELSE 0

\* C4 as stated: the returned peakBalance is at least the remainingBalance
\* of every schedule entry and at least initialDrawAmount.
C4_PeakCoversInitialDrawAmount ==
  (Returned /\ PassesGuard) =>
    /\ \A k \in Entries :
         result.peakBalance >= result.schedule[k].remainingBalance
    /\ result.peakBalance >= cfg.initialDrawAmount

\* C4 amended: the returned peakBalance is at least the remainingBalance of
\* every schedule entry and at least the initial draw actually taken,
\* min(initialDrawAmount, borrowLimit).
C4_PeakCoversInitialDrawTaken ==
  (Returned /\ PassesGuard) =>
    /\ \A k \in Entries :
         result.peakBalance >= result.schedule[k].remainingBalance
    /\ result.peakBalance >= InitialDrawTaken

\* an initial draw, and a later draw that raised the peak above it
C4_Witness ==
  /\ Returned
  /\ PassesGuard
  /\ InitialDrawTaken > 0
  /\ result.peakBalance > InitialDrawTaken
  /\ \E k \in Entries : result.schedule[k].remainingBalance = result.peakBalance

RECURSIVE SumOfDraws(_)
SumOfDraws(entries) ==
  IF entries = <<>> THEN 0
  ELSE SumOfDraws(SubSeq(entries, 1, Len(entries) - 1))
       + entries[Len(entries)].drawAmount

\* C5: the returned totalPayment equals the initial draw actually taken plus
\* the drawAmount of all schedule entries plus the returned totalInterest
\* plus the returned totalFees.
C5_SumLaw ==
  (Returned /\ PassesGuard) =>
    result.totalPayment =
      InitialDrawTaken + SumOfDraws(result.schedule)
      + result.totalInterest + result.totalFees

C5_Witness ==
  /\ Returned
  /\ PassesGuard
  /\ InitialDrawTaken > 0
  /\ SumOfDraws(result.schedule) > 0
  /\ result.totalInterest > 0
  /\ result.totalFees > 0
  /\ Len(result.schedule) > DrawLength

\* C6: two invocations with identical arguments return identical results,
\* summary fields and schedule alike: nothing survives from one invocation
\* to the next.
C6_SameResultOnRerun ==
  (Returned /\ calls > 1) => result = previous

C6_Witness ==
  /\ Returned
  /\ calls = 2
  /\ PassesGuard
  /\ cfg.initialDrawAmount > 0
  /\ previous.totalFees > 0
  /\ previous.totalInterest > 0
  /\ Len(previous.schedule) > DrawLength
  /\ Len(result.schedule) > DrawLength

\* C7: in every draw-phase period that consults the draw schedule, a request
\* above the headroom borrowLimit - balance before the draw is drawn as
\* exactly that headroom; the actual draw is never negative and never above
\* the request; a period that does not consult the schedule draws nothing.
C7_DrawClampedToHeadroom ==
  Returned =>
    \A k \in DrawEntries :
      LET e        == result.schedule[k]
          headroom == cfg.borrowLimit - e.beginningBalance
      IN  IF trace[k].consulted
          THEN /\ trace[k].requested > headroom => e.drawAmount = headroom
               /\ e.drawAmount >= 0
               /\ e.drawAmount <= trace[k].requested
          ELSE e.drawAmount = 0

C7_Witness ==
  /\ Returned
  /\ \E k \in DrawEntries :
       LET e        == result.schedule[k]
           headroom == cfg.borrowLimit - e.beginningBalance
       IN  /\ trace[k].consulted
           /\ headroom > 0
           /\ trace[k].requested > headroom
           /\ e.drawAmount = headroom

\* C8: after the initial draw and in every draw-phase period, after the
\* draw and at the end of the period, the balance is at most borrowLimit,
\* and every draw-phase entry has availableCredit >= 0.
C8_BorrowLimitIsCeiling ==
  /\ pc = "draw" => remainingBalance <= cfg.borrowLimit
  /\ Returned =>
       \A k \in DrawEntries :
         LET e == result.schedule[k]
         IN  /\ e.beginningBalance <= cfg.borrowLimit
             /\ e.beginningBalance + e.drawAmount <= cfg.borrowLimit
             /\ e.remainingBalance <= cfg.borrowLimit
             /\ e.availableCredit >= 0

\* an initial draw above the limit, then a request with no headroom left
C8_Witness ==
  /\ Returned
  /\ cfg.borrowLimit > 0
  /\ cfg.initialDrawAmount > cfg.borrowLimit
  /\ \E k \in DrawEntries :
       /\ trace[k].requested > 0
       /\ result.schedule[k].drawAmount = 0
       /\ result.schedule[k].availableCredit = 0

\* C9: the fees of a draw-phase period include inactivityFee exactly when
\* the period's actual draw is 0 and the period is not period 1 of a run
\* with initialDrawAmount > 0; a period with a draw never includes it, and
\* no repayment-phase period includes it.
InactivityExpected(k) ==
  /\ k <= DrawLength
  /\ result.schedule[k].drawAmount = 0
  /\ ~(k = 1 /\ cfg.initialDrawAmount > 0)

C9_InactivityFee ==
  Returned =>
    \A k \in Entries :
      LET e == result.schedule[k]
      IN  /\ trace[k].inactivity <=> InactivityExpected(k)
          /\ e.feesThisPeriod =
               periodicFees(cfg, k)
               + (IF e.drawAmount > 0
                  THEN MulDiv(e.drawAmount, cfg.originationFeePercent,
                              100 * RateScale) + cfg.drawFee
                  ELSE 0)
               + (IF InactivityExpected(k) THEN cfg.inactivityFee ELSE 0)

C9_Witness ==
  /\ Returned
  /\ cfg.inactivityFee > 0
  /\ cfg.initialDrawAmount > 0
  /\ Len(result.schedule) > DrawLength
  /\ result.schedule[1].drawAmount = 0
  /\ ~trace[1].inactivity
  /\ \E k \in DrawEntries : result.schedule[k].drawAmount > 0
  /\ \E k \in DrawEntries : trace[k].inactivity

\* C10
RateChangeAt(g) ==
  \E j \in 1..Len(cfg.rateChanges) : cfg.rateChanges[j].period = g

\* a rate change on repayment period g whose rate differs from the rate in
\* force in the period before
RateDiffersAt(g) ==
  /\ g \in RepaymentEntries
  /\ RateChangeAt(g)
  /\ trace[g].rate # trace[g - 1].rate

\* the periods from g up to the next rate change
SegmentFrom(g) ==
  {h \in Entries : h >= g /\ \A m \in (g + 1)..h : ~RateChangeAt(m)}

PaymentRecomputedAt(g) ==
  /\ \A h \in SegmentFrom(g) :
       result.schedule[h].payment =
         LevelPayment(cfg, result.schedule[g].beginningBalance, trace[g].rate,
                      TermLength - (g - DrawLength - 1))
  /\ g - 1 > DrawLength =>
       result.schedule[g].payment # result.schedule[g - 1].payment

\* C10 as stated: when a rate change with a different rate falls on
\* repayment period g, the payment recorded from g to the next rate change
\* is the level payment recomputed from the balance at the start of g and
\* the periods left, and differs from the payment of the period before.
C10_ReamortizedOnRateChange ==
  Returned => \A g \in Entries : RateDiffersAt(g) => PaymentRecomputedAt(g)

\* C10 amended: the same, when the balance at the start of g is positive.
C10_ReamortizedWhileBalancePositive ==
  Returned =>
    \A g \in Entries :
      (RateDiffersAt(g) /\ result.schedule[g].beginningBalance > 0)
         => PaymentRecomputedAt(g)

C10_Witness ==
  /\ Returned
  /\ \E g \in Entries :
       /\ RateDiffersAt(g)
       /\ g - 1 > DrawLength
       /\ g < Len(result.schedule)
       /\ result.schedule[g].beginningBalance > 0
       /\ trace[g].reamortized
       /\ result.schedule[g].payment # result.schedule[g - 1].payment
       /\ result.schedule[g + 1].payment = result.schedule[g].payment

\* C11
RepaymentRan == Len(result.schedule) > DrawLength

LastEntry == result.schedule[Len(result.schedule)]

RECURSIVE MaxRateUpTo(_)
MaxRateUpTo(k) ==
  IF k = 0 THEN 0 ELSE Max(trace[k].rate, MaxRateUpTo(k - 1))

\* What the rounding of the amounts to MoneyScale may leave unpaid: each
\* repayment period rounds its payment and its interest, at most one unit
\* together, and a unit left in a period grows by at most (1 + r)^n until
\* the last of the n periods.
RoundingTolerance ==
  LET rden == 100 * RateScale * periodsPerYear(cfg)
      grow == PowFixed(PowScale + MulDiv(PowScale, MaxRateUpTo(Len(trace)),
                                         rden), TermLength)
  IN  MulDiv(TermLength, grow, PowScale)

DrawMonths == 0..(12 * DRAW_PERIOD_YEARS - 1)

PeriodsOfMonth(m) == {p \in DrawEntries : currentMonthIndex(cfg, p) = m}

FirstPeriodIn(m) == CHOOSE p \in PeriodsOfMonth(m) :
                      \A q \in PeriodsOfMonth(m) : p <= q

RequestOfMonth(m) ==
  IF m < Len(cfg.drawSchedule) THEN cfg.drawSchedule[m + 1] ELSE 0

\* C12: for both cadences, each of the 24 calendar months of the draw
\* period has exactly one period, its first, that consults drawSchedule at
\* the month's index and draws the request up to the headroom; no other
\* period draws, and a month past the end of drawSchedule requests 0.
C12_OneDrawPerMonth ==
  (Returned /\ PassesGuard) =>
    \A m \in DrawMonths :
      LET first == FirstPeriodIn(m)
          e     == result.schedule[first]
      IN  /\ e.drawAmount =
               Max(0, Min(RequestOfMonth(m),
                          cfg.borrowLimit - e.beginningBalance))
          /\ m < Len(cfg.drawSchedule) =>
               trace[first].consulted
               /\ trace[first].requested = RequestOfMonth(m)
          /\ \A p \in PeriodsOfMonth(m) \ {first} :
               ~trace[p].consulted /\ result.schedule[p].drawAmount = 0

\* The part of an entry's fees that comes from its draw or from inactivity.
DrawPartOfFees(k) ==
  LET e == result.schedule[k]
  IN  IF e.drawAmount > 0
      THEN MulDiv(e.drawAmount, cfg.originationFeePercent, 100 * RateScale)
           + cfg.drawFee
      ELSE IF trace[k].inactivity THEN cfg.inactivityFee ELSE 0

\* Period k is the first period that begins in its calendar month, a month
\* being periodsPerYear / 12 periods long.
OpensMonth(k) ==
  k = 1 \/ currentMonthIndex(cfg, k) # currentMonthIndex(cfg, k - 1)

OpensYear(k) == (k - 1) % (IF cfg.repaymentCadence = "monthly" THEN 12 ELSE 52) = 0

\* C13: monthlyMaintenanceFee is part of feesThisPeriod on the first period
\* of each calendar month, by global period number, in both phases: every
\* period under monthly cadence, twelve periods of every 52 under weekly.
C13_MonthlyFeeEachMonth ==
  Returned =>
    \A k \in Entries :
      result.schedule[k].feesThisPeriod =
        (IF OpensMonth(k) THEN cfg.monthlyMaintenanceFee ELSE 0)
        + (IF OpensYear(k) THEN cfg.annualFee ELSE 0)
        + DrawPartOfFees(k)

RECURSIVE SumOfFees(_)
SumOfFees(entries) ==
  IF entries = <<>> THEN 0
  ELSE SumOfFees(SubSeq(entries, 1, Len(entries) - 1))
       + entries[Len(entries)].feesThisPeriod

\* drawFee and the origination percentage, for a draw that took place
FeesOfDraw(amount) ==
  IF amount > 0
  THEN MulDiv(amount, cfg.originationFeePercent, 100 * RateScale) + cfg.drawFee
  ELSE 0

\* C15: totalFees contains drawFee plus originationFeePercent / 100 of the
\* amount once for every draw whose actual amount is > 0, the initial draw
\* included, and nothing for a draw whose actual amount is 0.
C15_DrawFeePerNonzeroDraw ==
  (Returned /\ PassesGuard) =>
    /\ \A k \in Entries :
         result.schedule[k].feesThisPeriod
           - periodicFees(cfg, k)
           - (IF trace[k].inactivity THEN cfg.inactivityFee ELSE 0)
         = FeesOfDraw(result.schedule[k].drawAmount)
    /\ result.totalFees - SumOfFees(result.schedule)
         = FeesOfDraw(InitialDrawTaken)

\* C16
EventsUpTo(p) ==
  {j \in 1..Len(cfg.rateChanges) : cfg.rateChanges[j].period \in 1..p}

LatestEvents(p) ==
  {j \in EventsUpTo(p) :
     \A h \in EventsUpTo(p) :
       cfg.rateChanges[h].period <= cfg.rateChanges[j].period}

\* the rate of the latest event up to p (of one of them, when several name
\* the same period), or annualRate
RatesExpected(p) ==
  IF EventsUpTo(p) = {} THEN {cfg.annualRate}
  ELSE {cfg.rateChanges[j].newTotalAPR : j \in LatestEvents(p)}

\* C16: in both phases the annual rate used for the interest of global
\* period p is the newTotalAPR of the rate change with the greatest period
\* in 1..p, or annualRate when there is none; events whose period is
\* outside 1..schedule length change nothing.
C16_RateChangePersists ==
  Returned =>
    \A p \in Entries :
      LET e == result.schedule[p]
      IN  /\ trace[p].rate \in RatesExpected(p)
          /\ e.interest =
               PeriodInterest(cfg, e.beginningBalance + e.drawAmount,
                              trace[p].rate)

\* a change in each phase, each still in force in the period after it
C16_Witness ==
  /\ Returned
  /\ \E p \in DrawEntries, g \in RepaymentEntries :
       /\ RateChangeAt(p) /\ RateChangeAt(g)
       /\ p > 1 /\ g < Len(result.schedule)
       /\ trace[p].rate # trace[p - 1].rate
       /\ trace[g].rate # trace[g - 1].rate
       /\ trace[p + 1].rate = trace[p].rate
       /\ trace[g + 1].rate = trace[g].rate
       /\ ~RateChangeAt(p + 1) /\ ~RateChangeAt(g + 1)
       /\ result.schedule[p + 1].interest > 0
       /\ result.schedule[g + 1].interest > 0

\* C17
ReamortizedAt(g) ==
  /\ g \in RepaymentEntries
  /\ RateChangeAt(g)
  /\ result.schedule[g].beginningBalance > 0

LastReamortized ==
  CHOOSE g \in RepaymentEntries :
    ReamortizedAt(g) /\ \A h \in RepaymentEntries : ReamortizedAt(h) => h <= g

\* C17: the returned principalAndInterestPayment is the last level payment
\* computed in the repayment phase: that of the latest re-amortization, or
\* the first one when there was none, and 0 when the repayment phase did
\* not run; when it ran it is the payment of the last schedule entry.
C17_LastLevelPayment ==
  Returned =>
    IF ~RepaymentRan THEN result.principalAndInterestPayment = 0
    ELSE /\ result.principalAndInterestPayment = LastEntry.payment
         /\ result.principalAndInterestPayment =
              IF \E g \in RepaymentEntries : ReamortizedAt(g)
              THEN LET g == LastReamortized
                   IN  LevelPayment(cfg, result.schedule[g].beginningBalance,
                                    trace[g].rate,
                                    TermLength - (g - DrawLength - 1))
              ELSE LevelPayment(cfg, result.schedule[DrawLength].remainingBalance,
                                trace[DrawLength].rate, TermLength)

C17_Witness ==
  /\ Returned
  /\ RepaymentRan
  /\ \E g \in RepaymentEntries : ReamortizedAt(g) /\ g > DrawLength + 1
  /\ result.principalAndInterestPayment > 0
  /\ result.principalAndInterestPayment
       # result.schedule[DrawLength + 1].payment

\* C18
FeesOfInitialDraw ==
  IF cfg.initialDrawAmount > 0
  THEN MulDiv(InitialDrawTaken, cfg.originationFeePercent, 100 * RateScale)
       + cfg.drawFee
  ELSE 0

\* C18: the fees of the initial draw go to totalFees and to no entry's
\* feesThisPeriod: totalFees is the sum of feesThisPeriod over the entries
\* plus the initial-draw fees, and is that sum when there is no initial draw.
C18_InitialDrawFeesOutsideEntries ==
  (Returned /\ PassesGuard) =>
    /\ result.totalFees = SumOfFees(result.schedule) + FeesOfInitialDraw
    /\ cfg.initialDrawAmount = 0 =>
         result.totalFees = SumOfFees(result.schedule)
    /\ \A k \in Entries :
         result.schedule[k].feesThisPeriod
           = periodicFees(cfg, k) + DrawPartOfFees(k)

C18_Witness ==
  /\ Returned
  /\ PassesGuard
  /\ InitialDrawTaken > 0
  /\ cfg.originationFeePercent > 0
  /\ cfg.drawFee > 0
  /\ SumOfFees(result.schedule) > 0
  /\ result.totalFees > SumOfFees(result.schedule)

\* C19
TotalDrawn == InitialDrawTaken + SumOfDraws(result.schedule)

\* C19: effectiveAPR is (totalInterest + totalFees) / totalDraws /
\* (schedule length / periodsPerYear) * 100 when totalDraws > 0 and the
\* schedule is not empty, and 0 whenever totalDraws is 0, fees or not.
C19_EffectiveAPR ==
  (Returned /\ PassesGuard) =>
    IF TotalDrawn > 0 /\ Len(result.schedule) > 0
    THEN result.effectiveAPR =
           MulDiv(result.totalInterest + result.totalFees,
                  100 * RateScale * (IF cfg.repaymentCadence = "monthly"
                                     THEN 12 ELSE 52),
                  TotalDrawn * Len(result.schedule))
    ELSE TotalDrawn = 0 => result.effectiveAPR = 0

\* nothing drawn, fees charged all the same
C19_Witness ==
  /\ Returned
  /\ PassesGuard
  /\ TotalDrawn = 0
  /\ result.totalFees > 0
  /\ Len(result.schedule) > 0
  /\ result.effectiveAPR = 0

\* C20: the interest of a draw-phase period is computed on the balance after
\* the period's draw and before its principal payment, at the period's
\* rate: (beginningBalance + drawAmount) * rate / 100 / periodsPerYear under
\* endOfPeriod (406.25 on 50000 at 9.75% monthly), the same balance times
\* the daily rate times 7 or 365.25 / 12 days under adb.
C20_InterestOnPostDrawBalance ==
  /\ PeriodInterest([repaymentCadence |-> "monthly",
                     interestCalculationMethod |-> "endOfPeriod"],
                    Dollars(50000), 975) = 40625
  /\ Returned =>
       \A k \in DrawEntries :
         LET e    == result.schedule[k]
             base == e.beginningBalance + e.drawAmount
         IN  e.interest =
               IF cfg.interestCalculationMethod = "adb"
               THEN MulDiv(base,
                           trace[k].rate * (IF cfg.repaymentCadence = "monthly"
                                            THEN 1461 ELSE 336),
                           100 * RateScale * 17532)
               ELSE MulDiv(base, trace[k].rate,
                           100 * RateScale * (IF cfg.repaymentCadence = "monthly"
                                              THEN 12 ELSE 52))

\* a period that starts with a balance, draws, and pays principal
C20_Witness ==
  /\ Returned
  /\ \E k \in DrawEntries :
       LET e == result.schedule[k]
       IN  /\ e.beginningBalance > 0
           /\ e.drawAmount > 0
           /\ e.principal > 0
           /\ e.interest > 0
           /\ e.interest # PeriodInterest(cfg, e.beginningBalance, trace[k].rate)
           /\ e.interest # PeriodInterest(cfg, e.remainingBalance, trace[k].rate)

\* C21: under interestOnly every draw-phase entry has principal 0 and
\* payment = interest, so its remainingBalance is its beginningBalance plus
\* its drawAmount, and the balance at the end of the draw phase is the total
\* of the draws taken.
C21_InterestOnlyLeavesBalance ==
  (Returned /\ PassesGuard /\ cfg.paymentPolicy = "interestOnly") =>
    /\ \A k \in DrawEntries :
         LET e == result.schedule[k]
         IN  /\ e.principal = 0
             /\ e.payment = e.interest
             /\ e.remainingBalance = e.beginningBalance + e.drawAmount
    /\ result.schedule[DrawLength].remainingBalance = TotalDrawn

C21_Witness ==
  /\ Returned
  /\ PassesGuard
  /\ cfg.paymentPolicy = "interestOnly"
  /\ cfg.principalFloorAmount > 0
  /\ InitialDrawTaken > 0
  /\ \E k \in DrawEntries :
       result.schedule[k].drawAmount > 0 /\ result.schedule[k].interest > 0
  /\ result.schedule[DrawLength].remainingBalance > InitialDrawTaken

\* C22
PostDrawBalance(k) ==
  result.schedule[k].beginningBalance + result.schedule[k].drawAmount

PercentOfPostDrawBalance(k) ==
  MulDiv(PostDrawBalance(k), cfg.balancePaymentPercent, 100 * RateScale)

\* C22 as stated: under percentOfBalance every draw-phase entry has
\* payment = max(interest, post-draw balance * balancePaymentPercent / 100)
\* and principal = payment - interest, so payment >= interest and
\* principal >= 0.
C22_PercentOfBalance ==
  (Returned /\ cfg.paymentPolicy = "percentOfBalance") =>
    \A k \in DrawEntries :
      LET e == result.schedule[k]
      IN  /\ e.payment = Max(e.interest, PercentOfPostDrawBalance(k))
          /\ e.principal = e.payment - e.interest
          /\ e.payment >= e.interest
          /\ e.principal >= 0

\* C22 amended: the same, unless that principal would exceed the post-draw
\* balance; the principal is then the balance and the payment the balance
\* plus the interest.
C22_PercentOfBalanceUpToBalance ==
  (Returned /\ cfg.paymentPolicy = "percentOfBalance") =>
    \A k \in DrawEntries :
      LET e   == result.schedule[k]
          pay == Max(e.interest, PercentOfPostDrawBalance(k))
      IN  /\ IF pay - e.interest > PostDrawBalance(k)
             THEN /\ e.principal = PostDrawBalance(k)
                  /\ e.payment = PostDrawBalance(k) + e.interest
             ELSE e.payment = pay
          /\ e.principal = e.payment - e.interest
          /\ e.payment >= e.interest
          /\ e.principal >= 0

\* one run with a period whose interest is above the percentage and a period
\* whose percentage is above the interest
C22_Witness ==
  /\ Returned
  /\ cfg.paymentPolicy = "percentOfBalance"
  /\ \E k \in DrawEntries :
       /\ PostDrawBalance(k) > 0
       /\ result.schedule[k].interest > PercentOfPostDrawBalance(k)
       /\ result.schedule[k].payment = result.schedule[k].interest
  /\ \E k \in DrawEntries :
       /\ result.schedule[k].interest > 0
       /\ result.schedule[k].interest < PercentOfPostDrawBalance(k)
       /\ result.schedule[k].payment = PercentOfPostDrawBalance(k)
       /\ result.schedule[k].principal > 0
       /\ result.schedule[k].remainingBalance > 0

\* C23
PolicyPrincipal(k) ==
  IF cfg.paymentPolicy = "percentOfBalance"
  THEN Max(result.schedule[k].interest, PercentOfPostDrawBalance(k))
       - result.schedule[k].interest
  ELSE IF cfg.paymentPolicy = "interestPlusPrincipalFloor"
       THEN cfg.principalFloorAmount
       ELSE 0

\* C23: in every draw-phase entry, under every policy, the principal is at
\* most the post-draw balance, it is that balance when the policy's
\* principal would exceed it, and payment = principal + interest, capped or
\* not.
C23_PrincipalCappedAtBalance ==
  Returned =>
    \A k \in DrawEntries :
      LET e == result.schedule[k]
      IN  /\ e.principal <= PostDrawBalance(k)
          /\ e.principal = Min(PolicyPrincipal(k), PostDrawBalance(k))
          /\ e.payment = e.principal + e.interest

\* the floor exceeds what is owed: the balance is paid off with its interest
C23_Witness ==
  /\ Returned
  /\ cfg.paymentPolicy = "interestPlusPrincipalFloor"
  /\ \E k \in DrawEntries :
       LET e == result.schedule[k]
       IN  /\ PostDrawBalance(k) > 0
           /\ e.interest > 0
           /\ cfg.principalFloorAmount > PostDrawBalance(k)
           /\ e.principal = PostDrawBalance(k)
           /\ e.payment = PostDrawBalance(k) + e.interest

\* C24
\* The level payment in force in repayment period g: recomputed when a rate
\* change meets a positive balance, else the one of the period before, the
\* first one being computed from the balance the draw phase ends with.
LevelPaymentInForce(g) ==
  IF ReamortizedAt(g)
  THEN LevelPayment(cfg, result.schedule[g].beginningBalance, trace[g].rate,
                    TermLength - (g - DrawLength - 1))
  ELSE IF g = DrawLength + 1
       THEN LevelPayment(cfg, result.schedule[DrawLength].remainingBalance,
                         trace[DrawLength].rate, TermLength)
       ELSE result.schedule[g - 1].payment

\* the level payment would pay more principal than is owed
ClampedAt(g) ==
  result.schedule[g].payment - result.schedule[g].interest
    > result.schedule[g].beginningBalance

\* C24: every repayment entry records the level payment in force, also when
\* its principal was clamped to the balance: in a clamped period, and in
\* every period that starts with balance 0, payment > principal + interest
\* and the recorded remainingBalance is 0.
C24_LevelPaymentRecordedWhenClamped ==
  Returned =>
    \A g \in RepaymentEntries :
      LET e == result.schedule[g]
      IN  /\ e.payment = LevelPaymentInForce(g)
          /\ IF ClampedAt(g)
             THEN /\ e.principal = e.beginningBalance
                  /\ e.payment > e.principal + e.interest
                  /\ e.remainingBalance = 0
             ELSE e.principal = e.payment - e.interest
          /\ e.beginningBalance = 0 => ClampedAt(g) /\ e.principal = 0

\* a clamped last payment, and periods after it that start with nothing owed
C24_Witness ==
  /\ Returned
  /\ \E g \in RepaymentEntries :
       /\ ClampedAt(g)
       /\ result.schedule[g].beginningBalance > 0
       /\ result.schedule[g].interest > 0
       /\ g < Len(result.schedule)
       /\ result.schedule[g + 1].beginningBalance = 0
       /\ result.schedule[g + 1].payment = result.schedule[g].payment

\* C25
RepaymentPrincipal == result.schedule[DrawLength].remainingBalance

ZeroRateAtRepayment == RepaymentRan /\ trace[DrawLength].rate = 0

\* interest 0 and principal P / n in every repayment period, nothing left at
\* the last one and something left before it; the last principal is what
\* remains of P after n - 1 payments rounded to MoneyScale
StraightLineRepayment ==
  LET last == Len(result.schedule)
      part == MulDiv(RepaymentPrincipal, 1, TermLength)
  IN  /\ \A g \in RepaymentEntries :
           LET e == result.schedule[g]
           IN  /\ e.interest = 0
               /\ e.payment = part
               /\ g < last => e.principal = part /\ e.remainingBalance > 0
      /\ LastEntry.principal <= part
      /\ LastEntry.principal >= part - RoundingTolerance
      /\ LastEntry.remainingBalance <= RoundingTolerance

\* C25 as stated: when the rate in force at the start of the repayment
\* phase is 0, the level payment is P / n, every repayment entry has
\* interest 0 and principal P / n, and the balance reaches 0 at the last of
\* the n periods, not before.
C25_StraightLineAtZeroRate ==
  (Returned /\ ZeroRateAtRepayment) => StraightLineRepayment

\* C25 amended: the same, when no rate change falls on a repayment period.
C25_StraightLineWhileRateStaysZero ==
  (Returned /\ ZeroRateAtRepayment
     /\ \A g \in RepaymentEntries : ~RateChangeAt(g))
    => StraightLineRepayment

C25_Witness ==
  /\ Returned
  /\ ZeroRateAtRepayment
  /\ \A g \in RepaymentEntries : ~RateChangeAt(g)
  /\ RepaymentPrincipal > RoundingTolerance
  /\ result.schedule[DrawLength + 1].principal
       = MulDiv(RepaymentPrincipal, 1, TermLength)
  /\ LastEntry.beginningBalance > RoundingTolerance
  /\ LastEntry.remainingBalance <= RoundingTolerance

\* C26
\* of the events with the latest period up to p, the first in the list
FirstOfLatestEvents(p) ==
  CHOOSE j \in LatestEvents(p) : \A h \in LatestEvents(p) : j <= h

RateOfFirstMatch(p) ==
  IF EventsUpTo(p) = {} THEN cfg.annualRate
  ELSE cfg.rateChanges[FirstOfLatestEvents(p)].newTotalAPR

SamePeriodEvents(p) ==
  {j \in 1..Len(cfg.rateChanges) : cfg.rateChanges[j].period = p}

\* C26: of several rate changes with the same period one is applied at that
\* period, the first that a scan of the list sorted by period finds; the
\* others leave no trace in any entry: every period's interest is computed
\* at the rate of the first match of the latest period reached.
C26_FirstMatchWins ==
  Returned =>
    \A p \in Entries :
      LET e == result.schedule[p]
      IN  /\ trace[p].rate = RateOfFirstMatch(p)
          /\ e.interest =
               PeriodInterest(cfg, e.beginningBalance + e.drawAmount,
                              RateOfFirstMatch(p))

\* two events on one period with different rates, the first one in force
\* from that period on
C26_Witness ==
  /\ Returned
  /\ \E p \in Entries :
       /\ p < Len(result.schedule)
       /\ \E j, h \in SamePeriodEvents(p) :
            /\ j < h
            /\ cfg.rateChanges[j].newTotalAPR # cfg.rateChanges[h].newTotalAPR
            /\ \A f \in SamePeriodEvents(p) : j <= f
            /\ trace[p].rate = cfg.rateChanges[j].newTotalAPR
            /\ trace[p + 1].rate = cfg.rateChanges[j].newTotalAPR
       /\ trace[p - 1].rate # trace[p].rate
       /\ result.schedule[p].interest > 0
       /\ result.schedule[p + 1].interest > 0

\* C27
\* this invocation's arguments differ from the previous one's in field only
DiffersOnlyIn(field) ==
  /\ calls > 1
  /\ previousCfg[field] # cfg[field]
  /\ previousCfg = [cfg EXCEPT ![field] = previousCfg[field]]

\* C27: two runs that differ only in balancePaymentPercent return the same
\* result unless paymentPolicy is percentOfBalance, and two runs that differ
\* only in principalFloorAmount return the same result unless paymentPolicy
\* is interestPlusPrincipalFloor.
C27_ParametersOfOtherPoliciesUnused ==
  Returned =>
    /\ (DiffersOnlyIn("balancePaymentPercent")
          /\ cfg.paymentPolicy # "percentOfBalance") => result = previous
    /\ (DiffersOnlyIn("principalFloorAmount")
          /\ cfg.paymentPolicy # "interestPlusPrincipalFloor")
         => result = previous

\* the floor changed under interestOnly, the run going through both phases
C27_Witness ==
  /\ Returned
  /\ PassesGuard
  /\ DiffersOnlyIn("principalFloorAmount")
  /\ cfg.paymentPolicy = "interestOnly"
  /\ Len(result.schedule) > DrawLength
  /\ result.totalInterest > 0
  /\ result = previous


\* C28: the schedule is a continuous ledger: the entries are numbered
\* 1..length, the first beginningBalance is the initial draw capped at the
\* borrow limit, every beginningBalance is the remainingBalance of the entry
\* before, every entry has remainingBalance = beginningBalance + drawAmount
\* - principal and availableCredit = borrowLimit - remainingBalance, and
\* the repayment entries have drawAmount 0.
C28_ContinuousLedger ==
  (Returned /\ PassesGuard) =>
    /\ \A k \in Entries :
         LET e == result.schedule[k]
         IN  /\ e.period = k
             /\ e.beginningBalance =
                  (IF k = 1 THEN InitialDrawTaken
                   ELSE result.schedule[k - 1].remainingBalance)
             /\ e.remainingBalance =
                  e.beginningBalance + e.drawAmount - e.principal
             /\ e.availableCredit = cfg.borrowLimit - e.remainingBalance
    /\ \A k \in RepaymentEntries : result.schedule[k].drawAmount = 0

\* a capped initial draw, a later draw, principal paid in the draw phase,
\* and a repayment phase whose last payment is cut to the balance left
C28_Witness ==
  /\ Returned
  /\ PassesGuard
  /\ cfg.initialDrawAmount > cfg.borrowLimit
  /\ cfg.borrowLimit > 0
  /\ Len(result.schedule) > DrawLength
  /\ \E k \in DrawEntries :
       /\ result.schedule[k].drawAmount > 0
       /\ result.schedule[k].principal > 0
  /\ \E k \in RepaymentEntries :
       /\ result.schedule[k].principal > 0
       /\ result.schedule[k].principal <
            result.schedule[k].payment - result.schedule[k].interest
       /\ result.schedule[k].remainingBalance = 0

C30_TotalDrawsOfOwnScenario ==
  (Rendered /\ ComparisonDisplayed) =>
    /\ extendedMetricsA.totalDraws =
         SumDrawAmount(PositiveDraws(resultA.schedule))
         + scenarioA.initialDrawAmount
    /\ extendedMetricsB.totalDraws =
         SumDrawAmount(PositiveDraws(resultB.schedule))
         + scenarioB.initialDrawAmount

=============================================================================
